---- MODULE Spec2Model ----
(***************************************************************************)
(* Lead Management app (src/app.py): the store tables (users, targets,     *)
(* leads, notes), the Daily Upload handlers insert_leads and update_sales, *)
(* the Admin handlers Add Member and Edit Member, and the Dashboard render.*)
(* Each browser session runs the script on its own; the store is shared.   *)
(* Every store call (.execute()) is one atomic step; a handler that makes  *)
(* several calls is several steps of its session.                          *)
(***************************************************************************)
EXTENDS Integers, Sequences, FiniteSets, TLC

VARIABLES supabase, now, users, targets, leads, notes, up, adm, dash

vars == <<supabase, now, users, targets, leads, notes, up, adm, dash>>

(* ---------------------------- bounds ---------------------------------- *)
NumTeams == 2
NumUsers == 2
MaxLeads == 2
MaxCount == 2
MaxSales == 1
MaxTarget == 1
MaxTargetRows == 2
MaxNotes == 2
NumDates == 3
WeeksPerYear == 2

Teams == 1..NumTeams
Sessions == {1, 2}
\* a timestamp is a week index counted from the first week of the first year
Dates == 0..(NumDates - 1)

(* --------------------- numbers: float division ------------------------ *)
RECURSIVE Gcd(_, _)
Gcd(a, b) == IF b = 0 THEN a ELSE Gcd(b, a % b)

\* a sales value is the fraction n/d in lowest terms
Rat(n, d) == IF n = 0 THEN <<0, 1>> ELSE <<n \div Gcd(n, d), d \div Gcd(n, d)>>

RatAdd(p, q) == Rat(p[1] * q[2] + q[1] * p[2], p[2] * q[2])

RECURSIVE RatSum(_)
RatSum(s) == IF s = <<>> THEN <<0, 1>> ELSE RatAdd(Head(s), RatSum(Tail(s)))

\* .dt.isocalendar().week : the week number within the year, the year dropped
IsoWeek(d) == (d % WeeksPerYear) + 1

NoDate == -1

(* ------------------------- Daily Upload ------------------------------- *)
\* a Daily Upload session between two form submissions; msg is what the
\* last handler showed (st.success / st.warning / st.error)
IdleUp(msg) == [pc |-> "idle", team_id |-> 0, owner_id |-> 0, count |-> 0,
                sales_value |-> 0, date |-> NoDate,
                ids |-> <<>>, per_lead_value |-> <<0, 1>>, i |-> 0, msg |-> msg]

\* a plausible slip: range(int(lead_count) + 1)
NewLeadRowsOneMore(team_id, owner_id, lead_count, date) ==
    [k \in 1..(lead_count + 1) |->
        [team_id |-> team_id, owner_id |-> owner_id, created_at |-> date,
         converted |-> FALSE, sales_value |-> <<0, 1>>, updated_at |-> NoDate]]

\* rows = [{...} for _ in range(int(lead_count))]
NewLeadRows(team_id, owner_id, lead_count, date) ==
    [k \in 1..lead_count |->
        [team_id |-> team_id, owner_id |-> owner_id, created_at |-> date,
         converted |-> FALSE, sales_value |-> <<0, 1>>, updated_at |-> NoDate]]

\* the Daily Upload page offers the members whose users.team_id is the selected team
ValidSelection(team_id, owner_id) ==
    owner_id \in 1..Len(users) /\ users[owner_id] = team_id

\* insert_leads: one insert of lead_count rows, or a warning, or a caught error
insert_leads(s, team_id, owner_id, lead_count, date, storeOk) ==
    /\ up[s].pc = "idle"
    /\ ValidSelection(team_id, owner_id)
    /\ Len(leads) + lead_count <= MaxLeads
    /\ IF ~supabase
       THEN /\ up' = [up EXCEPT ![s] = IdleUp("warning")]
            /\ UNCHANGED leads
       ELSE IF ~storeOk
       THEN /\ up' = [up EXCEPT ![s] = IdleUp("error")]
            /\ UNCHANGED leads
       ELSE /\ leads' = leads \o NewLeadRows(team_id, owner_id, lead_count, date)
            /\ up' = [up EXCEPT ![s] = IdleUp("success")]
    /\ UNCHANGED <<supabase, now, users, targets, notes, adm, dash>>

\* a plausible slip: the select without .eq("converted", False)
MatchingAnyState(team_id, owner_id) ==
    {l \in 1..Len(leads) : /\ leads[l].team_id = team_id
                           /\ leads[l].owner_id = owner_id}

\* .eq("team_id", t).eq("owner_id", o).eq("converted", False)
Matching(team_id, owner_id) ==
    {l \in 1..Len(leads) : /\ leads[l].team_id = team_id
                           /\ leads[l].owner_id = owner_id
                           /\ ~leads[l].converted}

Min(a, b) == IF a < b THEN a ELSE b

\* a plausible slip: the select without .limit(converted_count)
SelectionsNoLimit(team_id, owner_id, converted_count) ==
    LET m == Matching(team_id, owner_id)
        n == Cardinality(m)
    IN {q \in [1..n -> m] : \A a, b \in 1..n : a < b => q[a] < q[b]}

\* .limit(converted_count) without an ORDER BY: any converted_count of the
\* matching rows, listed in table order
Selections(team_id, owner_id, converted_count) ==
    LET m == Matching(team_id, owner_id)
        n == Min(converted_count, Cardinality(m))
    IN {q \in [1..n -> m] : \A a, b \in 1..n : a < b => q[a] < q[b]}

\* a plausible slip: the whole sales value given to every lead
PerLeadValueWhole(sales_value, ids) == Rat(sales_value, 1)

\* per_lead_value = float(sales_value) / len(ids)
PerLeadValue(sales_value, ids) == Rat(sales_value, Len(ids))

\* update_sales up to and including the select and the test "if ids": the
\* call goes on to the update loop, or to the else branch of "if ids"
update_sales_select(s, team_id, owner_id, converted_count, sales_value, date, storeOk) ==
    /\ up[s].pc = "idle"
    /\ ValidSelection(team_id, owner_id)
    /\ IF ~supabase
       THEN up' = [up EXCEPT ![s] = IdleUp("warning")]
       ELSE IF ~storeOk
       THEN up' = [up EXCEPT ![s] = IdleUp("error")]
       ELSE \E ids \in Selections(team_id, owner_id, converted_count) :
              IF ids = <<>>
              THEN up' = [up EXCEPT ![s] =
                            [IdleUp("none") EXCEPT !.pc = "no_ids",
                               !.team_id = team_id, !.owner_id = owner_id,
                               !.count = converted_count]]
              ELSE up' = [up EXCEPT ![s] =
                            [pc |-> "update", team_id |-> team_id,
                             owner_id |-> owner_id, count |-> converted_count,
                             sales_value |-> sales_value,
                             date |-> date, ids |-> ids,
                             per_lead_value |-> PerLeadValue(sales_value, ids),
                             i |-> 1, msg |-> "none"]]
    /\ UNCHANGED <<supabase, now, users, targets, leads, notes, adm, dash>>

\* else: st.warning("No unconverted leads available for this member.")
update_sales_no_ids(s) ==
    /\ up[s].pc = "no_ids"
    /\ up' = [up EXCEPT ![s] = IdleUp("warning")]
    /\ UNCHANGED <<supabase, now, users, targets, leads, notes, adm, dash>>

\* a plausible slip: the update without "converted": True
UpdateLeadValueOnly(lid, value, date) ==
    [leads EXCEPT ![lid] = [@ EXCEPT !.sales_value = value, !.updated_at = date]]

\* .update({"converted": True, "sales_value": v, "updated_at": d}).eq("id", lid)
UpdateLead(lid, value, date) ==
    [leads EXCEPT ![lid] = [@ EXCEPT !.converted = TRUE, !.sales_value = value,
                                     !.updated_at = date]]

\* one turn of the loop "for lid in ids": the update of one lead (followed,
\* after the last one, by st.success), or the store error that ends the loop
\* in the except clause
update_sales_step(s, storeOk) ==
    /\ up[s].pc = "update"
    /\ IF ~storeOk
       THEN /\ up' = [up EXCEPT ![s] = IdleUp("error")]
            /\ UNCHANGED leads
       ELSE /\ leads' = UpdateLead(up[s].ids[up[s].i], up[s].per_lead_value, up[s].date)
            /\ up' = [up EXCEPT ![s] = IF up[s].i = Len(up[s].ids)
                                       THEN IdleUp("success")
                                       ELSE [@ EXCEPT !.i = @ + 1]]
    /\ UNCHANGED <<supabase, now, users, targets, notes, adm, dash>>

(* ------------------------------ Admin --------------------------------- *)
IdleAdm == [pc |-> "idle", user_id |-> 0, weekly_target |-> 0]

\* Add Member: supabase.table("users").insert(...) and user_id = the new id
add_member_insert_user(s, team_id, target_weekly, storeOk) ==
    /\ adm[s].pc = "idle"
    /\ Len(users) < NumUsers
    /\ IF supabase /\ storeOk
       THEN /\ users' = Append(users, team_id)
            /\ adm' = [adm EXCEPT ![s] = [pc |-> "add_target",
                                          user_id |-> Len(users) + 1,
                                          weekly_target |-> target_weekly]]
       ELSE UNCHANGED <<users, adm>>
    /\ UNCHANGED <<supabase, now, targets, leads, notes, up, dash>>

\* Add Member: supabase.table("targets").insert(...), or the caught error
add_member_insert_target(s, storeOk) ==
    /\ adm[s].pc = "add_target"
    /\ Len(targets) < MaxTargetRows
    /\ targets' = IF storeOk
                  THEN Append(targets, [user_id |-> adm[s].user_id,
                                        weekly_target |-> adm[s].weekly_target])
                  ELSE targets
    /\ adm' = [adm EXCEPT ![s] = IdleAdm]
    /\ UNCHANGED <<supabase, now, users, leads, notes, up, dash>>

\* Edit Member, Save Changes: supabase.table("users").update({"team_id": ...})
edit_member_update_user(s, member, new_team_id, new_weekly, storeOk) ==
    /\ adm[s].pc = "idle"
    /\ member \in 1..Len(users)
    /\ IF supabase /\ storeOk
       THEN /\ users' = [users EXCEPT ![member] = new_team_id]
            /\ adm' = [adm EXCEPT ![s] = [pc |-> "edit_targets", user_id |-> member,
                                          weekly_target |-> new_weekly]]
       ELSE UNCHANGED <<users, adm>>
    /\ UNCHANGED <<supabase, now, targets, leads, notes, up, dash>>

\* the rows .eq("user_id", member) matches
TargetRowsOf(member) == {k \in 1..Len(targets) : targets[k].user_id = member}

\* updated = supabase.table("targets").update({...}).eq("user_id", member);
\* updated.data is empty when no row matched
edit_member_update_targets(s, storeOk) ==
    /\ adm[s].pc = "edit_targets"
    /\ IF ~storeOk
       THEN /\ adm' = [adm EXCEPT ![s] = IdleAdm]
            /\ UNCHANGED targets
       ELSE /\ targets' = [k \in 1..Len(targets) |->
                             IF k \in TargetRowsOf(adm[s].user_id)
                             THEN [targets[k] EXCEPT !.weekly_target = adm[s].weekly_target]
                             ELSE targets[k]]
            /\ adm' = [adm EXCEPT ![s] = IF TargetRowsOf(adm[s].user_id) = {}
                                         THEN [@ EXCEPT !.pc = "edit_insert"]
                                         ELSE IdleAdm]
    /\ UNCHANGED <<supabase, now, users, leads, notes, up, dash>>

\* if update didn't change any rows, insert
edit_member_insert_target(s, storeOk) ==
    /\ adm[s].pc = "edit_insert"
    /\ Len(targets) < MaxTargetRows
    /\ targets' = IF storeOk
                  THEN Append(targets, [user_id |-> adm[s].user_id,
                                        weekly_target |-> adm[s].weekly_target])
                  ELSE targets
    /\ adm' = [adm EXCEPT ![s] = IdleAdm]
    /\ UNCHANGED <<supabase, now, users, leads, notes, up, dash>>

(* ---------------------------- Dashboard ------------------------------- *)
IdleDash == [pc |-> "idle", users |-> <<>>, targets |-> <<>>, leads |-> <<>>,
             notes |-> <<>>, now |-> NoDate, team |-> 0]

RatLess(p, q) == p[1] * q[2] < q[1] * p[2]

RatMin(p, q) == IF RatLess(p, q) THEN p ELSE q

RECURSIVE SumSeq(_)
SumSeq(q) == IF q = <<>> THEN 0 ELSE Head(q) + SumSeq(Tail(q))

\* current_week = datetime.utcnow().isocalendar().week
current_week(d) == IsoWeek(d.now)

\* the rows users.merge(targets, how="left") gives for one user: one per
\* targets row of the user, or a single row whose weekly_target is NaN -> 0
MemberRows(d, u) ==
    LET rows == SelectSeq(d.targets, LAMBDA r : r.user_id = u)
    IN IF rows = <<>>
       THEN <<[id |-> u, team_id |-> d.users[u], weekly_target |-> 0]>>
       ELSE [k \in 1..Len(rows) |->
               [id |-> u, team_id |-> d.users[u],
                weekly_target |-> rows[k].weekly_target]]

RECURSIVE MembersUpTo(_, _)
MembersUpTo(d, n) == IF n = 0 THEN <<>> ELSE MembersUpTo(d, n - 1) \o MemberRows(d, n)

\* members = users merged with the teams and with the targets
Members(d) == MembersUpTo(d, Len(d.users))

\* team_members = members[members.team_id == team_id]
TeamMembers(d, t) == SelectSeq(Members(d), LAMBDA m : m.team_id = t)

\* lead_summary rows of a set of owners in one week: the sum of "converted"
ConvertedIn(d, owners, week) ==
    Cardinality({l \in 1..Len(d.leads) : /\ d.leads[l].owner_id \in owners
                                         /\ IsoWeek(d.leads[l].created_at) = week
                                         /\ d.leads[l].converted})

\* total_converted = team_leads["converted"].sum()
total_converted(d, t) ==
    ConvertedIn(d, {TeamMembers(d, t)[k].id : k \in 1..Len(TeamMembers(d, t))},
                current_week(d))

\* the leads of a set of owners that lead_summary puts in one week
LeadsIn(d, owners, week) ==
    SelectSeq(d.leads, LAMBDA l : l.owner_id \in owners /\ IsoWeek(l.created_at) = week)

\* total_sales = team_leads["total_sales"].sum()
total_sales(d, t) ==
    LET q == LeadsIn(d, {TeamMembers(d, t)[k].id : k \in 1..Len(TeamMembers(d, t))},
                     current_week(d))
    IN RatSum([k \in 1..Len(q) |-> q[k].sales_value])

\* overall_week = lead_summary[week == current_week]; total_leads of the
\* company summary
overall_total_leads(d) == Len(LeadsIn(d, 1..Len(d.users), current_week(d)))

\* total_target = team_members["weekly_target"].sum()
total_target(d, t) ==
    SumSeq([k \in 1..Len(TeamMembers(d, t)) |-> TeamMembers(d, t)[k].weekly_target])

\* (converted / target * 100) if target > 0 else 0.0
Progress(converted, target) ==
    IF target > 0 THEN Rat(converted * 100, target) ELSE <<0, 1>>

\* a plausible slip: st.progress(progress / 100)
TeamBarNoClamp(d, t) ==
    LET progress == Progress(total_converted(d, t), total_target(d, t))
    IN Rat(progress[1], progress[2] * 100)

\* st.progress(min(progress / 100, 1.0))
TeamBar(d, t) ==
    LET progress == Progress(total_converted(d, t), total_target(d, t))
    IN RatMin(Rat(progress[1], progress[2] * 100), <<1, 1>>)

\* the member breakdown: one card per row of team_members
MemberConverted(d, m) == ConvertedIn(d, {m.id}, current_week(d))

\* width:{min(progress_m,100)}% of the member's bar, as a fraction of the bar
MemberBar(d, m) ==
    LET progress_m == Progress(MemberConverted(d, m), m.weekly_target)
        width == RatMin(progress_m, <<100, 1>>)
    IN Rat(width[1], width[2] * 100)

Max(a, b) == IF a > b THEN a ELSE b

\* incomplete = max(total_target - total_converted, 0)
Incomplete(d, t) == Max(total_target(d, t) - total_converted(d, t), 0)

\* note_exists: a loaded note of this team whose week number is current_week
note_exists(d, t) ==
    \E k \in 1..Len(d.notes) : /\ d.notes[k].team_id = t
                               /\ IsoWeek(d.notes[k].created_at) = current_week(d)

\* the condition under which the render of team t inserts the auto note
InsertsNote(d, t) ==
    /\ total_target(d, t) > 0
    /\ RatLess(Progress(total_converted(d, t), total_target(d, t)), <<100, 1>>)
    /\ ~note_exists(d, t)
    /\ Incomplete(d, t) > 0
    /\ supabase

\* the row of the insert: note_text carries int(incomplete), created_at is
\* datetime.utcnow() at the time of the insert
AutoNote(d, t) == [team_id |-> t, note_type |-> "auto",
                   incomplete |-> Incomplete(d, t), created_at |-> now]

\* a plausible slip: an upsert that replaces the notes of the team
InsertNoteReplacing(d, t) ==
    SelectSeq(notes, LAMBDA n : n.team_id # t) \o <<AutoNote(d, t)>>

\* supabase.table("notes").insert({...}).execute()
InsertNote(d, t) == Append(notes, AutoNote(d, t))

\* the five get_table calls and current_week: the render works on what it loaded
dashboard_load(s) ==
    /\ dash[s].pc = "idle"
    /\ supabase
    /\ dash' = [dash EXCEPT ![s] = [pc |-> "team", users |-> users,
                                    targets |-> targets, leads |-> leads,
                                    notes |-> notes, now |-> now, team |-> 1]]
    /\ UNCHANGED <<supabase, now, users, targets, leads, notes, up, adm>>

\* one turn of "for _, team in teams_df.iterrows()": a team without members
\* is skipped; otherwise the team is shown and its auto note inserted if due
dashboard_team(s, storeOk) ==
    /\ dash[s].pc = "team"
    /\ LET d == dash[s]
           t == d.team
       IN /\ IF TeamMembers(d, t) # <<>> /\ InsertsNote(d, t) /\ storeOk
             THEN /\ Len(notes) < MaxNotes
                  /\ notes' = InsertNote(d, t)
             ELSE UNCHANGED notes
          /\ dash' = [dash EXCEPT ![s] = IF t = NumTeams THEN IdleDash
                                         ELSE [d EXCEPT !.team = t + 1]]
    /\ UNCHANGED <<supabase, now, users, targets, leads, up, adm>>

(* --------------------------- the store -------------------------------- *)
InitSessions ==
    /\ up = [s \in Sessions |-> IdleUp("none")]
    /\ adm = [s \in Sessions |-> IdleAdm]
    /\ dash = [s \in Sessions |-> IdleDash]

\* one targets row per member, as Add Member leaves it
RosterTargets(u, w) == [k \in 1..Len(u) |-> [user_id |-> k, weekly_target |-> w]]

\* the roster of the Daily Upload runs: two members, one in each of two teams
UploadRoster == <<1, 2>>

\* the sales values entered in the Update Sales form
SalesInputs == {0, MaxSales}

\* the date picker of the Daily Upload forms: a day up to today
InputDates == {d \in Dates : d <= now}

\* Daily Upload on a store whose roster the admin has already entered
Init ==
    /\ supabase \in BOOLEAN
    /\ now = 0
    /\ users = UploadRoster
    /\ targets = RosterTargets(users, 0)
    /\ leads = <<>>
    /\ notes = <<>>
    /\ InitSessions

Next ==
    \/ \E s \in Sessions, o \in 1..Len(users), n \in 1..MaxCount,
          d \in InputDates, ok \in BOOLEAN : insert_leads(s, users[o], o, n, d, ok)
    \/ \E s \in Sessions, o \in 1..Len(users), n \in 0..MaxCount,
          v \in SalesInputs, d \in InputDates, ok \in BOOLEAN :
          update_sales_select(s, users[o], o, n, v, d, ok)
    \/ \E s \in Sessions : update_sales_no_ids(s)
    \/ \E s \in Sessions, ok \in BOOLEAN : update_sales_step(s, ok)

Spec == Init /\ [][Next]_vars

\* the Admin page on a store with the teams entered and no member yet
InitAdmin ==
    /\ supabase = TRUE
    /\ now = 0
    /\ users = <<>>
    /\ targets = <<>>
    /\ leads = <<>>
    /\ notes = <<>>
    /\ InitSessions

\* the Weekly Target field of Edit Member has no minimum
EditTargets == (0 - 1)..MaxTarget

NextAdmin ==
    \/ \E s \in Sessions, t \in Teams, w \in 0..MaxTarget, ok \in BOOLEAN :
          add_member_insert_user(s, t, w, ok)
    \/ \E s \in Sessions, ok \in BOOLEAN : add_member_insert_target(s, ok)
    \/ \E s \in Sessions, m \in 1..NumUsers, t \in Teams, w \in EditTargets,
          ok \in BOOLEAN : edit_member_update_user(s, m, t, w, ok)
    \/ \E s \in Sessions, ok \in BOOLEAN : edit_member_update_targets(s, ok)
    \/ \E s \in Sessions, ok \in BOOLEAN : edit_member_insert_target(s, ok)

SpecAdmin == InitAdmin /\ [][NextAdmin]_vars

\* the targets rows the Admin page can leave for one member: no row (the
\* targets insert of Add Member failed), one row, or two rows (an Edit Member
\* save that raced with another insert)
TargetRowsChoices(u) ==
    {<<>>}
    \cup {<<[user_id |-> u, weekly_target |-> w]>> : w \in 0..MaxTarget}
    \cup {<<[user_id |-> u, weekly_target |-> w[1]], [user_id |-> u, weekly_target |-> w[2]]>> :
             w \in {x \in (0..MaxTarget) \X (0..MaxTarget) : x[1] <= x[2]}}

RECURSIVE TargetTablesUpTo(_)
TargetTablesUpTo(n) ==
    IF n = 0 THEN {<<>>}
    ELSE {a \o b : a \in TargetTablesUpTo(n - 1), b \in TargetRowsChoices(n)}

\* the targets tables of a roster of n members, within MaxTargetRows
TargetTables(n) == {q \in TargetTablesUpTo(n) : Len(q) <= MaxTargetRows}

\* the rosters of the Dashboard runs: two members in one team, or in two
DashRosters == {<<1, 1>>, <<1, 2>>}

\* the weeks the leads of the Dashboard runs were entered for: the first
\* week, the week before the render and the week of the render
LeadDates == {0, NumDates - 2, NumDates - 1}

\* a lead as insert_leads wrote it, possibly converted since by update_sales
\* with converted_count = 1 and sales value 1
LeadRows(u) ==
    {[team_id |-> u[o], owner_id |-> o, created_at |-> c, converted |-> cv,
      sales_value |-> IF cv THEN <<1, 1>> ELSE <<0, 1>>,
      updated_at |-> IF cv THEN c ELSE NoDate] :
        o \in 1..Len(u), c \in LeadDates, cv \in BOOLEAN}

LeadKey(l) == (l.owner_id * NumDates + l.created_at) * 2 + (IF l.converted THEN 1 ELSE 0)

\* the leads tables of at most MaxLeads rows, one per multiset of rows (the
\* Dashboard groups and sums, the row order does not reach it)
LeadTables(u) ==
    UNION {{q \in [1..n -> LeadRows(u)] :
               \A k \in 1..(n - 1) : LeadKey(q[k]) <= LeadKey(q[k + 1])} : n \in 0..MaxLeads}

\* the session that renders the Dashboard in SpecDash
Viewer == 1

\* the Dashboard rendered in the last week of the calendar over the contents
\* the other pages can leave in the users, targets and leads tables
InitDash ==
    /\ supabase = TRUE
    /\ now = NumDates - 1
    /\ users \in DashRosters
    /\ targets \in TargetTables(Len(users))
    /\ leads \in LeadTables(users)
    /\ notes = <<>>
    /\ InitSessions

NextDash ==
    \/ dashboard_load(Viewer)
    \/ \E ok \in BOOLEAN : dashboard_team(Viewer, ok)

SpecDash == InitDash /\ [][NextDash]_vars

\* datetime.utcnow() has moved into the next week
next_week ==
    /\ now < NumDates - 1
    /\ now' = now + 1
    /\ UNCHANGED <<supabase, users, targets, leads, notes, up, adm, dash>>

\* the leads of the runs over several weeks: none, or one converted lead of
\* the first member entered in the first week
NotesLeads(u) ==
    {[k \in 1..n |-> [team_id |-> u[1], owner_id |-> 1, created_at |-> 0,
                     converted |-> TRUE, sales_value |-> <<1, 1>>,
                     updated_at |-> 0]] : n \in 0..1}

\* Dashboards rendered by two sessions while the weeks go by, every member
\* with one targets row
InitNotes ==
    /\ supabase = TRUE
    /\ now = 0
    /\ users \in DashRosters
    /\ \E w \in 0..MaxTarget : targets = RosterTargets(users, w)
    /\ leads \in NotesLeads(users)
    /\ notes = <<>>
    /\ InitSessions

NextNotes ==
    \/ \E s \in Sessions : dashboard_load(s)
    \/ \E s \in Sessions, ok \in BOOLEAN : dashboard_team(s, ok)
    \/ next_week

SpecNotes == InitNotes /\ [][NextNotes]_vars

\* the session that works the Admin page and the one that works the Daily
\* Upload page in SpecAttr
Admin == 1
Uploader == 2

\* Admin and Daily Upload over one store: members are added and switched
\* between teams while leads are entered and converted
NextAttr ==
    \/ \E t \in Teams, ok \in BOOLEAN : add_member_insert_user(Admin, t, 0, ok)
    \/ \E ok \in BOOLEAN : add_member_insert_target(Admin, ok)
    \/ \E m \in 1..NumUsers, t \in Teams, ok \in BOOLEAN :
          edit_member_update_user(Admin, m, t, 0, ok)
    \/ \E ok \in BOOLEAN : edit_member_update_targets(Admin, ok)
    \/ \E ok \in BOOLEAN : edit_member_insert_target(Admin, ok)
    \/ \E o \in 1..Len(users), n \in 1..MaxCount, d \in InputDates, ok \in BOOLEAN :
          insert_leads(Uploader, users[o], o, n, d, ok)
    \/ \E o \in 1..Len(users), n \in 0..MaxCount, v \in SalesInputs,
          d \in InputDates, ok \in BOOLEAN :
          update_sales_select(Uploader, users[o], o, n, v, d, ok)
    \/ update_sales_no_ids(Uploader)
    \/ \E ok \in BOOLEAN : update_sales_step(Uploader, ok)

SpecAttr == InitAdmin /\ [][NextAttr]_vars

\* unconverted leads entered by insert_leads in the weeks of LeadDates
OpenLeadTables(u) == {q \in LeadTables(u) : \A k \in 1..Len(q) : ~q[k].converted}

\* conversions recorded on the Daily Upload page in the last week of the
\* calendar, over leads entered in that week and before, with the Dashboard
\* rendered in between
InitConv ==
    /\ supabase = TRUE
    /\ now = NumDates - 1
    /\ users = UploadRoster
    /\ targets = RosterTargets(users, MaxTarget)
    /\ leads \in OpenLeadTables(users)
    /\ notes = <<>>
    /\ InitSessions

\* the conversion dates picked in SpecConv: a day of last week or of this week
ConvDates == {d \in InputDates : d >= now - 1}

NextConv ==
    \/ \E o \in 1..Len(users), n \in 0..MaxCount, d \in ConvDates, ok \in BOOLEAN :
          update_sales_select(Uploader, users[o], o, n, MaxSales, d, ok)
    \/ update_sales_no_ids(Uploader)
    \/ \E ok \in BOOLEAN : update_sales_step(Uploader, ok)
    \/ dashboard_load(Viewer)
    \/ \E ok \in BOOLEAN : dashboard_team(Viewer, ok)

SpecConv == InitConv /\ [][NextConv]_vars

(* --------------------- properties of the Dashboard -------------------- *)
\* the progress the contract asks for: 0 for a zero target, else A/T in [0, 1]
ExpectedProgress(achieved, target) ==
    IF target = 0 THEN <<0, 1>>
    ELSE IF achieved >= target THEN <<1, 1>>
    ELSE Rat(achieved, target)

\* session s is showing a team
Shows(s) == dash[s].pc = "team" /\ TeamMembers(dash[s], dash[s].team) # <<>>

\* C1: the bar shown for a team with target T >= 0 and converted count A, and
\* for each of its members, is 0 when T = 0 and otherwise A/T clamped to [0, 1].
C1_ProgressClamped ==
    \A s \in Sessions :
        Shows(s) =>
            LET d == dash[s]
                t == d.team
                tm == TeamMembers(d, t)
            IN /\ total_target(d, t) >= 0 =>
                     TeamBar(d, t) = ExpectedProgress(total_converted(d, t), total_target(d, t))
               /\ \A k \in 1..Len(tm) :
                     tm[k].weekly_target >= 0 =>
                        MemberBar(d, tm[k])
                           = ExpectedProgress(MemberConverted(d, tm[k]), tm[k].weekly_target)

\* a team with target 0 and a conversion this week is on the screen
C1_Witness ==
    \E s \in Sessions :
        /\ Shows(s)
        /\ total_target(dash[s], dash[s].team) = 0
        /\ total_converted(dash[s], dash[s].team) > 0

\* the carry-forward of the contract: the shortfall of week w is
\* max(0, base target + shortfall of week w - 1 - achieved in week w)
AchievedInWeek(d, t, w) ==
    Cardinality({l \in 1..Len(d.leads) :
                    /\ \E k \in 1..Len(TeamMembers(d, t)) :
                          TeamMembers(d, t)[k].id = d.leads[l].owner_id
                    /\ d.leads[l].created_at = w
                    /\ d.leads[l].converted})

RECURSIVE Shortfall(_, _, _)
Shortfall(d, t, w) ==
    IF w < 0 THEN 0
    ELSE Max(0, total_target(d, t) + Shortfall(d, t, w - 1) - AchievedInWeek(d, t, w))

\* C2 as claimed: the target the Dashboard uses for a team in the current week
\* is the base weekly target plus the shortfall carried from the week before.
C2_TargetIncludesCarry ==
    \A s \in Sessions :
        Shows(s) =>
            LET d == dash[s]
                t == d.team
                base == SumSeq([k \in 1..Len(TeamMembers(d, t)) |->
                                   TeamMembers(d, t)[k].weekly_target])
            IN total_target(d, t) = base + Shortfall(d, t, d.now - 1)

\* C3 as claimed: the converted counts on the member cards of a team add up
\* to the converted count shown for the team.
C3_Conservation ==
    \A s \in Sessions :
        Shows(s) =>
            LET d == dash[s]
                tm == TeamMembers(d, d.team)
            IN SumSeq([k \in 1..Len(tm) |-> MemberConverted(d, tm[k])])
                  = total_converted(d, d.team)

\* C11: rendering the Dashboard leaves the users, targets and leads tables
\* unchanged, and the only store write of a render is the insert of one auto
\* note into the notes table (the teams table is fixed in this model).
C11_RenderOnlyInsertsNote ==
    [][(dash' # dash) =>
          /\ users' = users /\ targets' = targets /\ leads' = leads
          /\ \/ notes' = notes
             \/ /\ Len(notes') = Len(notes) + 1
                /\ SubSeq(notes', 1, Len(notes)) = notes
                /\ notes'[Len(notes')].note_type = "auto"]_vars

\* a render has inserted an auto note into a notes table that held one, over
\* a store with leads and targets
C11_Witness ==
    /\ Len(notes) = 2
    /\ leads # <<>>
    /\ targets # <<>>
    /\ \E s \in Sessions : dash[s].pc = "team" /\ dash[s].team > 1

\* C12 as claimed: under any interleaving of Dashboard renders the notes
\* table holds at most one auto note per team per week.
C12_OneAutoNotePerTeamWeek ==
    \A a, b \in 1..Len(notes) :
        (/\ notes[a].note_type = "auto" /\ notes[b].note_type = "auto"
         /\ notes[a].team_id = notes[b].team_id
         /\ notes[a].created_at = notes[b].created_at) => a = b

\* session s takes the turn of its team loop for the team it is at
TeamTurn(s) == dash[s].pc = "team" /\ dash'[s] # dash[s]

\* the render of session s has loaded a note of team t made in the very week
\* of the render
NoteThisWeek(d, t) ==
    \E k \in 1..Len(d.notes) : d.notes[k].team_id = t /\ d.notes[k].created_at = d.now

\* C13 as claimed: a render inserts an auto note for a team only if the
\* team's weekly target is > 0 and its converted count of the current week is
\* below the target, the number in the note is max(0, target - converted),
\* and a render whose store accepts the insert does insert the note whenever
\* the team has such a shortfall and no note of the current week.
C13_NoteIffShortfall ==
    [][\A s \in Sessions :
         TeamTurn(s) =>
            LET d == dash[s]
                t == d.team
                target == total_target(d, t)
                converted == AchievedInWeek(d, t, d.now)
            IN /\ (notes' # notes) =>
                     /\ target > 0 /\ converted < target
                     /\ notes'[Len(notes')].team_id = t
                     /\ notes'[Len(notes')].incomplete = Max(0, target - converted)
               /\ (/\ target > 0 /\ converted < target
                   /\ ~NoteThisWeek(d, t)
                   /\ dashboard_team(s, TRUE)) => notes' # notes]_vars

\* the same statement for the renders of the first year, in which no record
\* of another year shares a week number with the current week
C13_FirstYear ==
    [][\A s \in Sessions :
         (TeamTurn(s) /\ dash[s].now < WeeksPerYear) =>
            LET d == dash[s]
                t == d.team
                target == total_target(d, t)
                converted == AchievedInWeek(d, t, d.now)
            IN /\ (notes' # notes) =>
                     /\ target > 0 /\ converted < target
                     /\ notes'[Len(notes')].team_id = t
                     /\ notes'[Len(notes')].incomplete = Max(0, target - converted)
               /\ (/\ target > 0 /\ converted < target
                   /\ ~NoteThisWeek(d, t)
                   /\ dashboard_team(s, TRUE)) => notes' # notes]_vars

\* the leads of the members of team t created in the very week of the render
LeadsThisWeek(d, t) ==
    SelectSeq(d.leads, LAMBDA l : /\ \E k \in 1..Len(TeamMembers(d, t)) :
                                       TeamMembers(d, t)[k].id = l.owner_id
                                  /\ l.created_at = d.now)

\* C16 as claimed: the current-week lead, converted and sales totals of the
\* Dashboard and its check for an existing auto note take into account only
\* the leads and notes made in the current calendar week, never those of the
\* same week number of another year.
C16_OnlyCurrentWeek ==
    \A s \in Sessions :
        Shows(s) =>
            LET d == dash[s]
                t == d.team
                q == LeadsThisWeek(d, t)
            IN /\ total_converted(d, t) = AchievedInWeek(d, t, d.now)
               /\ total_sales(d, t) = RatSum([k \in 1..Len(q) |-> q[k].sales_value])
               /\ overall_total_leads(d)
                     = Len(SelectSeq(d.leads, LAMBDA l : l.created_at = d.now))
               /\ note_exists(d, t) = NoteThisWeek(d, t)

Wrote(s) == up[s].pc = "update" /\ up'[s] # up[s] /\ up'[s].msg # "error"

\* the update_sales call of session s has just returned from its loop
Finished(s) == up[s].pc = "update" /\ up'[s].pc = "idle"

\* the leads the call of s has marked converted when it returns
Written(s) == IF up'[s].msg = "success" THEN up[s].ids
              ELSE SubSeq(up[s].ids, 1, up[s].i - 1)

\* C4 as claimed: every lead that an update_sales call with converted_count = N
\* and sales value V marks converted is assigned exactly V/N.
C4_PerLeadIsVOverN ==
    [][\A s \in Sessions :
         Wrote(s) => leads'[up[s].ids[up[s].i]].sales_value
                        = Rat(up[s].sales_value, up[s].count)]_vars

\* C4 amended: the call selects k = min(N, number of unconverted leads of the
\* member in the team) leads, and every lead it marks converted is assigned
\* exactly V/k (which is V/N when the member has at least N unconverted leads).
C4_PerLeadIsVOverSelected ==
    [][/\ \A s \in Sessions :
             Wrote(s) => /\ leads'[up[s].ids[up[s].i]].converted
                         /\ leads'[up[s].ids[up[s].i]].sales_value
                               = Rat(up[s].sales_value, Len(up[s].ids))
       /\ \A s \in Sessions :
             (up[s].pc = "idle" /\ up'[s].pc = "update") =>
                /\ Len(up'[s].ids) = Min(up'[s].count,
                         Cardinality(Matching(up'[s].team_id, up'[s].owner_id)))
                /\ \A a \in 1..Len(up'[s].ids) : ~leads[up'[s].ids[a]].converted]_vars

\* a call for two leads with sales value 1 has assigned 1/2 to the first
C4_Witness ==
    \E s \in Sessions :
        /\ up[s].pc = "update" /\ up[s].i = 2
        /\ leads[up[s].ids[1]].converted
        /\ leads[up[s].ids[1]].sales_value = <<1, 2>>

\* C5 as claimed: when an update_sales call that marked at least one lead
\* converted returns, with success or after a failed store update, the sales
\* values of the leads it converted add up to V.
C5_SalesTotalPreserved ==
    [][\A s \in Sessions :
         (Finished(s) /\ Written(s) # <<>>) =>
            RatSum([k \in 1..Len(Written(s)) |-> leads'[Written(s)[k]].sales_value])
               = Rat(up[s].sales_value, 1)]_vars

\* what a Dashboard render would load before and after the step
Loaded == [users |-> users, targets |-> targets, leads |-> leads,
           notes |-> notes, now |-> now]
LoadedNext == [users |-> users', targets |-> targets', leads |-> leads',
               notes |-> notes', now |-> now']

\* C15 as claimed: when update_sales, called with a conversion date in the
\* current week, marks an unconverted lead converted, the converted count the
\* Dashboard shows for the current week goes up by one for the owning member
\* and for the member's team, whatever week the lead was created in.
C15_ConversionCountsThisWeek ==
    [][\A s \in Sessions :
         (/\ Wrote(s) /\ up[s].date = now
          /\ ~leads[up[s].ids[up[s].i]].converted) =>
            LET o == up[s].owner_id
            IN /\ MemberConverted(LoadedNext, [id |-> o])
                     = MemberConverted(Loaded, [id |-> o]) + 1
               /\ total_converted(LoadedNext, users[o])
                     = total_converted(Loaded, users[o]) + 1]_vars

\* C6: every unconverted lead has sales value 0 and every converted lead has
\* a sales value >= 0.
C6_LeadInvariant ==
    \A l \in 1..Len(leads) :
        /\ ~leads[l].converted => leads[l].sales_value = <<0, 1>>
        /\ leads[l].converted => leads[l].sales_value[1] >= 0 /\ leads[l].sales_value[2] > 0

C6_Witness ==
    \E a, b \in 1..Len(leads) :
        /\ leads[a].converted /\ leads[a].sales_value[1] > 0
        /\ ~leads[b].converted

\* C7 as claimed: once a lead is converted it stays converted and its sales
\* value is never written again, under any interleaving of update_sales calls.
C7_ConvertedOnce ==
    [][\A l \in 1..Len(leads) :
         leads[l].converted => /\ leads'[l].converted
                               /\ leads'[l].sales_value = leads[l].sales_value]_vars

\* C8: insert_leads with a configured store and no store error appends exactly
\* lead_count rows with the given team and owner, unconverted and with sales
\* value 0, and changes no existing lead.
C8_InsertAddsRows ==
    [][\A s \in Sessions :
         (supabase /\ up[s].pc = "idle" /\ up'[s] = IdleUp("success")) =>
            \A o \in 1..Len(users), n \in 1..MaxCount, d \in InputDates :
               insert_leads(s, users[o], o, n, d, TRUE) =>
                  /\ Len(leads') = Len(leads) + n
                  /\ SubSeq(leads', 1, Len(leads)) = leads
                  /\ \A k \in (Len(leads) + 1)..Len(leads') :
                        /\ leads'[k].team_id = users[o] /\ leads'[k].owner_id = o
                        /\ leads'[k].converted = FALSE
                        /\ leads'[k].sales_value = <<0, 1>>]_vars

C8_Witness ==
    /\ \E s \in Sessions : up[s].msg = "success"
    /\ Len(leads) = 2
    /\ \A l \in 1..Len(leads) : ~leads[l].converted

\* C10: when update_sales finds no lead to convert (converted_count = 0, or
\* no unconverted lead of the member in the team), it does not enter the
\* update loop (no per-lead value, no store update): it takes the else branch,
\* which changes no lead and shows the warning.
C10_NothingToConvert ==
    [][\A s \in Sessions :
         /\ (up[s].pc = "idle" /\ up'[s].pc = "update") =>
               /\ up'[s].count > 0
               /\ Matching(up'[s].team_id, up'[s].owner_id) # {}
         /\ (up[s].pc = "idle" /\ up'[s].pc = "no_ids") =>
               (up'[s].count = 0 \/ Matching(up'[s].team_id, up'[s].owner_id) = {})
         /\ (up[s].pc = "no_ids" /\ up'[s] # up[s]) =>
               /\ leads' = leads
               /\ up'[s] = IdleUp("warning")]_vars

\* C17: update_sales(team, owner, converted_count, ...) selects at most
\* converted_count leads, each unconverted and of the given team and owner
\* when selected; each of its updates changes the selected lead only, and its
\* other steps change no lead.
C17_UpdateFrame ==
    [][\A s \in Sessions :
         /\ (up[s].pc = "idle" /\ up'[s].pc = "update") =>
               /\ Len(up'[s].ids) <= up'[s].count
               /\ \A a, b \in 1..Len(up'[s].ids) :
                     a # b => up'[s].ids[a] # up'[s].ids[b]
               /\ \A a \in 1..Len(up'[s].ids) :
                     LET l == leads[up'[s].ids[a]]
                     IN /\ ~l.converted
                        /\ l.team_id = up'[s].team_id
                        /\ l.owner_id = up'[s].owner_id
               /\ leads' = leads
         /\ Wrote(s) =>
               /\ Len(leads') = Len(leads)
               /\ \A l \in 1..Len(leads) :
                     l # up[s].ids[up[s].i] => leads'[l] = leads[l]
         /\ (up[s].pc \in {"update", "no_ids"} /\ up'[s] # up[s] /\ ~Wrote(s)) =>
               leads' = leads
         /\ (up[s].pc = "idle" /\ up'[s].pc = "no_ids") => leads' = leads]_vars

\* a call has converted a lead of member 1 while a lead of member 2 and an
\* unconverted one are in the table
C17_Witness ==
    /\ \E s \in Sessions : up[s].msg = "success"
    /\ \E a, b \in 1..Len(leads) :
          /\ leads[a].converted /\ leads[a].owner_id = 1 /\ leads[a].updated_at # NoDate
          /\ ~leads[b].converted /\ leads[b].owner_id = 2

\* a configured store, a lead in the table, and a call that ended in the warning
C10_Witness ==
    /\ supabase
    /\ leads # <<>>
    /\ \E s \in Sessions : up[s].msg = "warning"

====
